---- MODULE Spec2Model ----
(***************************************************************************)
(* Model of qcardio/commands/arm.py: the blood-pressure frame decoders and *)
(* one call of Plugin.measure(), i.e. one measurement session driven by    *)
(* _measure_async followed by the battery read.                            *)
(* Spec and LiveSpec are that call, DecodeSpec is one call of a decoder  *)
(* on its own, ShellSpec is the construction of QardioShell (cli.py).     *)
(* CmdSpec is the shell's measure command, run again and again, with the  *)
(* StateService (services/state.py) that saves the shell's state.         *)
(*                                                                         *)
(* Conventions                                                             *)
(*  - a byte string is a sequence of numbers 0..255 (1-indexed here,       *)
(*    0-indexed in the source; Slice does the translation);                *)
(*  - Python's None / an absent value is the empty sequence <<>>, a        *)
(*    present value v is <<v>>;                                            *)
(*  - the float m * 10^e returned by parse_sfloat is kept exactly, as the  *)
(*    record [mant |-> m, exp |-> e];                                      *)
(*  - an exception raised by a decoder is the record                       *)
(*    [ok |-> FALSE, err |-> <exception type>];                            *)
(*  - the notification handlers are plain callbacks the transport calls    *)
(*    from the event loop while the session task is suspended at an await; *)
(*    an exception they raise ends the callback and is reported to the     *)
(*    event loop, not to the suspended task (handlerErr records it).       *)
(***************************************************************************)
EXTENDS Integers, Sequences, FiniteSets, TLC

VARIABLES
    pc,            \* position of measure() / _measure_async
    result,        \* _measure_async.result: <<>> is {}, <<m>> after update(m)
    aborted,       \* _measure_async.aborted: [flag, reason]
    event,         \* asyncio.Event: TRUE once set
    progress,      \* what the progress sink was called with, in order
    handled,       \* history: the notifications handed to the handlers
    handlerErr,    \* history: exceptions raised inside the handlers
    elapsed,       \* time spent in wait_for so far
    timedOut,      \* wait_for raised asyncio.TimeoutError
    pending,       \* exception raised in the try block (<<>>: none), with
                   \* the position that raised it
    subscribed,    \* the characteristics start_notify registered a handler for
    writes,        \* number of start-command writes issued
    opens,         \* number of BleakClient connections opened by the session
    connected,     \* a BleakClient connection is open
    sess,          \* how _measure_async ended (<<>> while it runs)
    batteryReads,  \* number of battery reads issued by measure()
    ret,           \* what measure() returned: <<>> is None, <<row>> a row
    printed,       \* what measure() printed after "[FAIL] " (<<>>: nothing)
    measureExc,    \* exception that left measure() (<<>>: none)
    call,          \* a decoder applied on its own: [fn, arg, out] (<<>>: none)
    shell          \* the QardioShell under construction

vars == <<pc, result, aborted, event, progress, handled, handlerErr, elapsed,
          timedOut, pending, subscribed, writes, opens, connected, sess,
          batteryReads, ret, printed, measureExc, call, shell>>

----------------------------------------------------------------------------
(* Bounds of the model *)

\* notifications delivered during one session
MaxNotifs == 2

\* Plugin.timeout, in clock ticks
timeout == 1

----------------------------------------------------------------------------
(* Bytes *)

Bit(n, k) == (n \div (2 ^ k)) % 2 = 1

\* Python's data[a:b] on a 0-indexed byte string
Slice(data, a, b) ==
    LET hi == IF b < Len(data) THEN b ELSE Len(data)
    IN  IF a >= hi THEN <<>> ELSE SubSeq(data, a + 1, hi)

\* int.from_bytes(raw, 'big') for at most two bytes
FromBytesBig(raw) ==
    IF Len(raw) = 0 THEN 0
    ELSE IF Len(raw) = 1 THEN raw[1]
    ELSE 256 * raw[1] + raw[2]

\* int.from_bytes(raw, 'little') for at most two bytes
FromBytesLittle(raw) ==
    IF Len(raw) = 0 THEN 0
    ELSE IF Len(raw) = 1 THEN raw[1]
    ELSE raw[1] + 256 * raw[2]

Raise(e) == [ok |-> FALSE, err |-> e]

----------------------------------------------------------------------------
(* Decoders *)

\* a decoder that sign-extends the exponent but not the mantissa
parse_sfloat_unsigned(raw) ==
    IF Len(raw) < 2 THEN Raise("IndexError")
    ELSE LET val == raw[1] + 256 * raw[2]
             e0  == (val \div 4096) % 16
         IN  [ok |-> TRUE,
              v  |-> [mant |-> val % 4096,
                      exp  |-> IF e0 >= 8 THEN e0 - 16 ELSE e0]]

\* parse_sfloat: little-endian 16-bit word, 12-bit mantissa, 4-bit exponent,
\* both two's complement.  raw[1] of a slice shorter than two bytes raises
\* IndexError.
parse_sfloat(raw) ==
    IF Len(raw) < 2 THEN Raise("IndexError")
    ELSE LET val  == raw[1] + 256 * raw[2]
             m0   == val % 4096
             mant == IF m0 >= 2048 THEN m0 - 4096 ELSE m0
             e0   == (val \div 4096) % 16
             exp  == IF e0 >= 8 THEN e0 - 16 ELSE e0
         IN  [ok |-> TRUE, v |-> [mant |-> mant, exp |-> exp]]

\* parse_bp_notification: flags, three SFLOATs, optional pulse (bit 2),
\* optional status (bit 4).  The status is read with int.from_bytes on a
\* slice, which does not fail on a short slice.
parse_bp_notification(data) ==
    IF Len(data) = 0 THEN Raise("IndexError")
    ELSE LET flags     == data[1]
             unit      == IF Bit(flags, 0) THEN "kPa" ELSE "mmHg"
             systolic  == parse_sfloat(Slice(data, 1, 3))
             diastolic == parse_sfloat(Slice(data, 3, 5))
             map_val   == parse_sfloat(Slice(data, 5, 7))
             pulse     == parse_sfloat(Slice(data, 7, 9))
             offset    == IF Bit(flags, 2) THEN 9 ELSE 7
         IN  IF ~systolic.ok THEN systolic
             ELSE IF ~diastolic.ok THEN diastolic
             ELSE IF ~map_val.ok THEN map_val
             ELSE IF Bit(flags, 2) /\ ~pulse.ok THEN pulse
             ELSE [ok |-> TRUE,
                   v  |-> [flags     |-> flags,
                           unit      |-> unit,
                           systolic  |-> systolic.v,
                           diastolic |-> diastolic.v,
                           map       |-> map_val.v,
                           pulse     |-> IF Bit(flags, 2) THEN <<pulse.v>>
                                         ELSE <<>>,
                           status    |-> IF Bit(flags, 4)
                                         THEN <<FromBytesLittle(
                                                  Slice(data, offset, offset + 2))>>
                                         ELSE <<>>]]

\* a table with the names of bits 1 and 2 exchanged
mappingSwapped ==
    <<"body_movement", "irregular_pulse", "cuff_too_loose",
      "pulse_rate_out_of_range">>

\* decode_conditions: the names of the set bits 0..3, in ascending bit order
mapping ==
    <<"body_movement", "cuff_too_loose", "irregular_pulse",
      "pulse_rate_out_of_range">>

RECURSIVE ConditionsFrom(_, _)
ConditionsFrom(status, bit) ==
    IF bit > 3 THEN <<>>
    ELSE (IF Bit(status, bit) THEN <<mapping[bit + 1]>> ELSE <<>>)
         \o ConditionsFrom(status, bit + 1)

decode_conditions(status) == ConditionsFrom(status, 0)

\* "|".join(conditions)
RECURSIVE Join(_)
Join(names) ==
    IF Len(names) = 0 THEN ""
    ELSE IF Len(names) = 1 THEN names[1]
    ELSE names[1] \o "|" \o Join(Tail(names))

\* class Phase: wire code -> member name (<<>>: no such member)
Phase(code) ==
    CASE code = 1 -> <<"INFLATING">>
      [] code = 2 -> <<"MEASURING">>
      [] code = 3 -> <<"DEFLATING">>
      [] code = 4 -> <<"COMPLETED">>
      [] code = 5 -> <<"ABORTED">>
      [] code = 6 -> <<"ERROR">>
      [] OTHER    -> <<>>

\* str(phase) of an enum member
PhaseStr(phase) == "Phase." \o phase

\* _decode_vendor: Phase(raw[1]) raises ValueError for a code that is no
\* member; any other shape returns None.
_decode_vendor(raw) ==
    IF Len(raw) = 2 /\ raw[1] = 242
    THEN IF Phase(raw[2]) = <<>> THEN Raise("ValueError")
         ELSE [ok |-> TRUE, v |-> Phase(raw[2])]
    ELSE [ok |-> TRUE, v |-> <<>>]

----------------------------------------------------------------------------
(* Inputs: the payloads the device sends during a session *)

\* flags 0x10, 120 / 80 / 93 mmHg, status 0
FinalFrame == <<16, 120, 0, 80, 0, 93, 0, 0, 0>>

\* flags 0x10, status 0b1011
FinalFrameCond == <<16, 120, 0, 80, 0, 93, 0, 11, 0>>

\* flags 0x00: an intermediate sample
SampleFrame == <<0, 120, 0, 80, 0, 93, 0>>

\* the implicit-abort signature 0x04 0xFF ..., long enough for flags 0x04
AbortFrame == <<4, 255, 7, 1, 0, 0, 0, 0, 0>>

\* the implicit-abort signature cut to 5, 6, 7 and 8 bytes
ShortAbortFrames == {SubSeq(AbortFrame, 1, n) : n \in 5..8}

MeasPayloads ==
    {FinalFrame, FinalFrameCond, SampleFrame, AbortFrame} \cup ShortAbortFrames

\* 0xF2 + phase code; 0xF2 0x09 is no phase, and neither is a 1-byte payload
\* nor a payload with another first byte
CtrlPayloads ==
    {<<242, 2>>, <<242, 4>>, <<242, 5>>, <<242, 6>>, <<242, 9>>, <<242>>,
     <<241, 4>>}

\* what the transport raises when a step fails
TransportErrors == {"BleakError", "OSError"}

\* the byte the battery characteristic returns
BatteryLevels == {87}

----------------------------------------------------------------------------
(* _measure_async *)

PhaseEvent(phase) == [type |-> "phase", phase |-> phase]

\* a sample event that carries no fields
BpEventBare(m) == [type |-> "bp"]

BpEvent(m) == [type |-> "bp", m |-> m]

\* the implicit-abort test of handle_measurement
IsImplicitAbort(data) == Len(data) >= 5 /\ data[1] = 4 /\ data[2] = 255

\* a handler that takes every frame for a final one
IsFinalAlways(m) == TRUE

\* handle_measurement's test for a final frame
IsFinal(m) == Bit(m.flags, 4)

\* handle_measurement: parse first, then the implicit-abort test, then the
\* progress call and the capture of a final frame.
handle_measurement(data) ==
    LET m == parse_bp_notification(data)
    IN  IF ~m.ok
        THEN /\ handlerErr' = Append(handlerErr, m.err)
             /\ UNCHANGED <<result, aborted, event, progress>>
        ELSE IF IsImplicitAbort(data)
        THEN /\ aborted' = [flag |-> TRUE, reason |-> "arm movement"]
             /\ progress' = Append(progress, PhaseEvent("ABORTED"))
             /\ event' = TRUE
             /\ handlerErr' = Append(handlerErr, "QardioMeasurementAborted")
             /\ UNCHANGED result
        ELSE /\ progress' = Append(progress, BpEvent(m.v))
             /\ IF IsFinal(m.v)
                THEN result' = <<m.v>> /\ event' = TRUE
                ELSE UNCHANGED <<result, event>>
             /\ UNCHANGED <<aborted, handlerErr>>

\* the phases on which handle_control sets the event
SetsEvent(phase) == phase \in {"COMPLETED", "ABORTED", "ERROR"}

\* the phases on which handle_control raises QardioMeasurementAborted
RaisesAborted(phase) == phase \in {"ABORTED", "ERROR"}

\* handle_control
handle_control(data) ==
    LET phase == _decode_vendor(data)
    IN  IF ~phase.ok
        THEN /\ handlerErr' = Append(handlerErr, phase.err)
             /\ UNCHANGED <<result, aborted, event, progress>>
        ELSE IF phase.v = <<>>
        THEN UNCHANGED <<result, aborted, event, progress, handlerErr>>
        ELSE /\ progress' = Append(progress, PhaseEvent(phase.v[1]))
             /\ event' = (event \/ SetsEvent(phase.v[1]))
             /\ handlerErr' = IF RaisesAborted(phase.v[1])
                              THEN Append(handlerErr, "QardioMeasurementAborted")
                              ELSE handlerErr
             /\ UNCHANGED <<result, aborted>>

\* an except clause that leaves out OSError
CaughtWithoutOSError == {"BleakError", "TimeoutError"}

\* the exceptions the except clause of _measure_async turns into
\* QardioConnectionError
Caught == {"BleakError", "TimeoutError", "OSError"}

\* an except clause that reports a timeout by a message of its own
ExceptTimedOut(e) ==
    IF e = "TimeoutError"
    THEN [kind |-> "raise", type |-> "QardioConnectionError",
          msg |-> "timed out", cause |-> e]
    ELSE IF e \in Caught
    THEN [kind |-> "raise", type |-> "QardioConnectionError",
          msg |-> "cannot connect", cause |-> e]
    ELSE [kind |-> "raise", type |-> e, msg |-> "", cause |-> "none"]

\* the except clause: an exception it names becomes
\* QardioConnectionError("cannot connect") from e, any other leaves
\* _measure_async as it is
Except(e) ==
    IF e \in Caught
    THEN [kind |-> "raise", type |-> "QardioConnectionError",
          msg |-> "cannot connect", cause |-> e]
    ELSE [kind |-> "raise", type |-> e, msg |-> "", cause |-> "none"]

\* the end of _measure_async after the with-block was left normally
Outcome(ab, res) ==
    IF ab.flag
    THEN [kind |-> "raise", type |-> "QardioMeasurementAborted",
          msg |-> ab.reason, cause |-> "none"]
    ELSE [kind |-> "return", value |-> res]

\* the transport calls a handler while the connection is open and the
\* handler is registered
MeasSubscribed == connected /\ "meas" \in subscribed

CtrlSubscribed == connected /\ "ctrl" \in subscribed

sessionVars ==
    <<pc, elapsed, timedOut, pending, subscribed, writes, opens, connected, sess>>

measureVars == <<batteryReads, ret, printed, measureExc>>

handlerVars == <<result, aborted, event, progress, handlerErr>>

\* what a call of measure() leaves alone
otherVars == <<call, shell>>

\* the transport delivers a notification of the measurement characteristic
MeasurementNotification ==
    \E data \in MeasPayloads :
        /\ MeasSubscribed
        /\ Len(handled) < MaxNotifs
        /\ handle_measurement(data)
        /\ handled' = Append(handled, [ch |-> "meas", data |-> data, at |-> pc])
        /\ UNCHANGED <<sessionVars, measureVars,
                       otherVars>>

\* the transport delivers a notification of the control characteristic
ControlNotification ==
    \E data \in CtrlPayloads :
        /\ CtrlSubscribed
        /\ Len(handled) < MaxNotifs
        /\ handle_control(data)
        /\ handled' = Append(handled, [ch |-> "ctrl", data |-> data, at |-> pc])
        /\ UNCHANGED <<sessionVars, measureVars,
                       otherVars>>

\* async with BleakClient(address) as c: __aenter__ connects
Connect ==
    /\ pc = "connect"
    /\ opens' = opens + 1
    /\ connected' = TRUE
    /\ pc' = "notify_meas"
    /\ UNCHANGED <<elapsed, timedOut, pending, subscribed, writes, sess,
                   handled, handlerVars, measureVars,
                   otherVars>>

\* __aenter__ raises: the with-block is not entered, the except clause runs
ConnectFail ==
    \E e \in TransportErrors :
        /\ pc = "connect"
        /\ opens' = opens + 1
        /\ pending' = <<[err |-> e, at |-> pc]>>
        /\ sess' = <<Except(e)>>
        /\ pc' = "returned"
        /\ UNCHANGED <<elapsed, timedOut, subscribed, writes, connected,
                       handled, handlerVars, measureVars,
                       otherVars>>

\* a step of the with-block raises e: the exception leaves the block
LeaveWith(e) ==
    /\ pending' = <<[err |-> e, at |-> pc]>>
    /\ pc' = "exit"

\* await c.start_notify(BP_MEAS_UUID, handle_measurement)
NotifyMeas ==
    /\ pc = "notify_meas"
    /\ subscribed' = subscribed \cup {"meas"}
    /\ pc' = "notify_ctrl"
    /\ UNCHANGED <<elapsed, timedOut, pending, writes, opens, connected, sess,
                   handled, handlerVars, measureVars,
                   otherVars>>

NotifyMeasFail ==
    \E e \in TransportErrors :
        /\ pc = "notify_meas"
        /\ LeaveWith(e)
        /\ UNCHANGED <<elapsed, timedOut, subscribed, writes, opens, connected,
                       sess, handled, handlerVars, measureVars,
                       otherVars>>

\* await c.start_notify(CONTROL_UUID, handle_control)
NotifyCtrl ==
    /\ pc = "notify_ctrl"
    /\ subscribed' = subscribed \cup {"ctrl"}
    /\ pc' = "write"
    /\ UNCHANGED <<elapsed, timedOut, pending, writes, opens, connected, sess,
                   handled, handlerVars, measureVars,
                   otherVars>>

NotifyCtrlFail ==
    \E e \in TransportErrors :
        /\ pc = "notify_ctrl"
        /\ LeaveWith(e)
        /\ UNCHANGED <<elapsed, timedOut, subscribed, writes, opens, connected,
                       sess, handled, handlerVars, measureVars,
                       otherVars>>

\* await c.write_gatt_char(CONTROL_UUID, bytes([0xF1,0x01]), response=True)
\* followed by the start of wait_for
Write ==
    /\ pc = "write"
    /\ writes' = writes + 1
    /\ elapsed' = 0
    /\ pc' = "wait"
    /\ UNCHANGED <<timedOut, pending, subscribed, opens, connected, sess,
                   handled, handlerVars, measureVars,
                   otherVars>>

\* a session that writes the start command again after a failed write
WriteFailRetry ==
    \E e \in TransportErrors :
        /\ pc = "write"
        /\ writes' = writes + 1
        /\ UNCHANGED <<pc, pending, elapsed, timedOut, subscribed, opens,
                       connected, sess, handled, handlerVars, measureVars,
                       otherVars>>

WriteFail ==
    \E e \in TransportErrors :
        /\ pc = "write"
        /\ writes' = writes + 1
        /\ LeaveWith(e)
        /\ UNCHANGED <<elapsed, timedOut, subscribed, opens, connected, sess,
                       handled, handlerVars, measureVars,
                       otherVars>>

\* time passes while wait_for waits for the event
Tick ==
    /\ pc = "wait"
    /\ ~event
    /\ elapsed < timeout
    /\ elapsed' = elapsed + 1
    /\ UNCHANGED <<pc, timedOut, pending, subscribed, writes, opens,
                   connected, sess, handled, handlerVars, measureVars,
                   otherVars>>

\* a wait without a deadline: await event.wait()
WaitForever ==
    /\ pc = "wait"
    /\ FALSE
    /\ UNCHANGED vars

\* wait_for: the timeout elapsed with the event not set; the exception
\* leaves the with-block
Timeout ==
    /\ pc = "wait"
    /\ ~event
    /\ elapsed = timeout
    /\ timedOut' = TRUE
    /\ LeaveWith("TimeoutError")
    /\ UNCHANGED <<elapsed, subscribed, writes, opens, connected, sess,
                   handled, handlerVars, measureVars,
                   otherVars>>

\* wait_for: event.wait() returned
WaitReturn ==
    /\ pc = "wait"
    /\ event
    /\ pc' = "exit"
    /\ UNCHANGED <<elapsed, timedOut, pending, subscribed, writes, opens,
                   connected, sess, handled, handlerVars, measureVars,
                   otherVars>>

\* an exception of the transport surfaces at the await of wait_for (the
\* except clause encloses the wait as it encloses the transport calls)
WaitFail ==
    \E e \in TransportErrors :
        /\ pc = "wait"
        /\ LeaveWith(e)
        /\ UNCHANGED <<elapsed, timedOut, subscribed, writes, opens, connected,
                       sess, handled, handlerVars, measureVars,
                       otherVars>>

\* a session that leaves its block without closing the client
ReturnWithoutDisconnect ==
    /\ pc = "exit"
    /\ sess' = IF pending # <<>>
               THEN <<Except(pending[1].err)>>
               ELSE <<Outcome(aborted, result)>>
    /\ pc' = "returned"
    /\ UNCHANGED <<connected, elapsed, timedOut, pending, subscribed, writes,
                   opens, handled, handlerVars, measureVars, otherVars>>

\* __aexit__ disconnects; then the except clause, or the lines after the
\* with-block
Disconnect ==
    /\ pc = "exit"
    /\ connected' = FALSE
    /\ sess' = IF pending # <<>>
               THEN <<Except(pending[1].err)>>
               ELSE <<Outcome(aborted, result)>>
    /\ pc' = "returned"
    /\ UNCHANGED <<elapsed, timedOut, pending, subscribed, writes, opens,
                   handled, handlerVars, measureVars,
                   otherVars>>

\* __aexit__: the disconnect itself raises
DisconnectFail ==
    \E e \in TransportErrors :
        /\ pc = "exit"
        /\ connected' = FALSE
        /\ pending' = <<[err |-> e, at |-> pc]>>
        /\ sess' = <<Except(e)>>
        /\ pc' = "returned"
        /\ UNCHANGED <<elapsed, timedOut, subscribed, writes, opens, handled,
                       handlerVars, measureVars,
                       otherVars>>

----------------------------------------------------------------------------
(* Plugin.measure *)

\* the exceptions measure() catches
MeasureCatches == {"QardioConnectionError", "QardioMeasurementAborted"}

\* m.get("status") or 0
StatusOrZero(m) ==
    IF m = <<>> THEN 0
    ELSE IF m[1].status = <<>> THEN 0
    ELSE m[1].status[1]

\* the row measure() returns: the fields of m, the battery byte and the
\* joined conditions (the timestamp is left out)
Row(m, battery) ==
    [m |-> m, battery |-> battery,
     conditions |-> Join(decode_conditions(StatusOrZero(m)))]

\* except (QardioConnectionError, QardioMeasurementAborted): print, return
\* None; any other exception leaves measure()
MeasureFail ==
    /\ pc = "returned"
    /\ sess[1].kind = "raise"
    /\ IF sess[1].type \in MeasureCatches
       THEN printed' = <<sess[1].msg>> /\ UNCHANGED measureExc
       ELSE measureExc' = <<[type |-> sess[1].type, msg |-> sess[1].msg,
                             cause |-> sess[1].cause]>>
            /\ UNCHANGED printed
    /\ ret' = <<>>
    /\ pc' = "done"
    /\ UNCHANGED <<batteryReads, elapsed, timedOut, pending, subscribed,
                   writes, opens, connected, sess, handled, handlerVars,
                   otherVars>>

\* the battery read and the row
BatteryRead ==
    \E b \in BatteryLevels :
        /\ pc = "returned"
        /\ sess[1].kind = "return"
        /\ batteryReads' = batteryReads + 1
        /\ ret' = <<Row(sess[1].value, b)>>
        /\ pc' = "done"
        /\ UNCHANGED <<printed, measureExc, elapsed, timedOut, pending,
                       subscribed, writes, opens, connected, sess, handled,
                       handlerVars,
                       otherVars>>

\* _read_char_async raises QardioConnectionError, which measure() lets through
BatteryReadFail ==
    /\ pc = "returned"
    /\ sess[1].kind = "return"
    /\ batteryReads' = batteryReads + 1
    /\ measureExc' = <<[type |-> "QardioConnectionError",
                        msg |-> "read failed", cause |-> "BleakError"]>>
    /\ pc' = "done"
    /\ UNCHANGED <<ret, printed, elapsed, timedOut, pending, subscribed,
                   writes, opens, connected, sess, handled, handlerVars,
                   otherVars>>

----------------------------------------------------------------------------
(* QardioShell: construction of the shell, up to the command loop *)

\* the modules of the package qcardio.commands
Modules == {"arm", "core", "base"}

\* the classes a module defines
ModuleClasses(mod) ==
    CASE mod = "arm"  -> {"QardioConnectionError", "QardioMeasurementAborted",
                          "Phase", "Plugin"}
      [] mod = "core" -> {"Plugin"}
      [] mod = "base" -> {"PluginBase"}

\* the methods the body of PluginBase defines
PluginBaseMethods == {"discover", "read", "write"}

\* the attributes of an instance of mod.Plugin: the methods of the class
\* body and those of PluginBase, which both Plugin classes extend
PluginMethods(mod) ==
    CASE mod = "arm"  -> {"measure", "get_battery", "get_device_info",
                          "get_features"} \cup PluginBaseMethods
      [] mod = "core" -> {"discover", "read", "write", "measure"}
                             \cup PluginBaseMethods

\* Python's  a or b  on an optional string: None and "" are false
Or(a, b) == IF a # <<>> /\ a[1] # "" THEN a ELSE b

\* A dataset is a dict with the keys do_measure uses, each absent (<<>>) or
\* present (<<value>>).  The datasets of the shell (state.data), the object
\* StateService holds in self.state and the content of state.json are dicts
\* with at most the key "_": <<>> is {}, <<d>> is {"_": d}.  The file itself
\* is absent (<<>>) or has a content (<<content>>).

\* {}
EmptyDict == [progress |-> <<>>, error |-> <<>>, measurement |-> <<>>]

\* {"progress": []}
FreshDict == [progress |-> << <<>> >>, error |-> <<>>, measurement |-> <<>>]

\* QardioShell(device, address, adapter) is called; file is what
\* qcardio.conf holds for the device (<<>>: no file, no section, no key)
NewShell(device, address, adapter, file) ==
    [stage |-> "new", name |-> device, address |-> address,
     adapter |-> adapter, file |-> file, cfg |-> <<>>, device |-> <<>>,
     phases |-> <<>>, slot |-> <<>>, exc |-> <<>>,
     disk |-> <<>>, loaded |-> <<>>, busy |-> FALSE, again |-> FALSE]

\* StateService._load: the content of state.json, {} without the file
_load(disk) == IF disk = <<>> THEN <<>> ELSE disk[1]

\* StateService.__init__: self.state is loaded, self.data is {}
StateService(s) == [s EXCEPT !.loaded = _load(s.disk), !.slot = <<>>]

\* StateService.save: json.dump(self.state, ...)
save(s) == [s EXCEPT !.disk = <<s.loaded>>]

\* ConfigService.__init__: an argument takes precedence over the file
ConfigService(s) ==
    [s EXCEPT !.stage = "services",
              !.cfg = <<[device |-> s.name,
                         address |-> Or(s.address, s.file.address),
                         adapter |-> Or(s.adapter, s.file.adapter)]>>]

\* _load_plugin always returning the core plugin
_load_core(s) ==
    [s EXCEPT !.stage = "loaded", !.phases = <<>>, !.device = <<"core">>]

\* _load_plugin: import qcardio.commands.<name>, keep its Phase, build its Plugin
_load_plugin(s) ==
    IF s.name \notin Modules
    THEN [s EXCEPT !.stage = "failed", !.exc = <<"ModuleNotFoundError">>]
    ELSE IF "Plugin" \notin ModuleClasses(s.name)
    THEN [s EXCEPT !.stage = "failed", !.exc = <<"AttributeError">>,
                   !.phases = IF "Phase" \in ModuleClasses(s.name)
                              THEN <<s.name>> ELSE <<>>]
    ELSE [s EXCEPT !.stage = "loaded",
                   !.phases = IF "Phase" \in ModuleClasses(s.name)
                              THEN <<s.name>> ELSE <<>>,
                   !.device = <<s.name>>]

\* what the scan for the device yields
ScanOutcomes == {"found", "not found", "BleakError"}

\* _verify_device, then the rest of __init__: the "_" slot of the state
_verify_device(s, scan) ==
    IF scan = "found"
    THEN save([s EXCEPT !.stage = "constructed", !.slot = <<EmptyDict>>])
    ELSE [s EXCEPT !.stage = "exited", !.exc = <<"SystemExit">>]

\* main: shell.cmdloop()
cmdloop(s) == [s EXCEPT !.stage = "loop"]

\* hasattr(shell.device, name)
hasattr(s, name) == s.device # <<>> /\ name \in PluginMethods(s.device[1])

\* the shell of a session: constructed for "arm", running its command loop
ArmShell ==
    cmdloop(_verify_device(_load_plugin(StateService(ConfigService(
        NewShell("arm", <<"A1">>, <<>>, [address |-> <<>>, adapter |-> <<>>])))),
        "found"))

\* the arguments and the configuration file of a construction
DeviceNames == {"arm", "core", "base", "leg"}

AddressArgs == {<<>>, <<"">>, <<"A1">>}

AdapterArgs == {<<>>, <<"hci0">>}

ConfigFiles ==
    [address : {<<>>, <<"A2">>}, adapter : {<<>>, <<"hci1">>}]

\* state.json when the shell starts: no file, {}, or a "_" dataset written
\* by hand or by another program
StateFiles ==
    {<<>>, << <<>> >>,
     << <<[progress |-> << <<>> >>, error |-> <<"measurement aborted">>,
           measurement |-> <<>>]>> >>}

\* every variable of a call of measure()
callVars ==
    <<pc, result, aborted, event, progress, handled, handlerErr, elapsed,
      timedOut, pending, subscribed, writes, opens, connected, sess,
      batteryReads, ret, printed, measureExc>>

\* __init__, lines 29-32: the services
ShellServices ==
    /\ shell.stage = "new"
    /\ shell' = StateService(ConfigService(shell))
    /\ UNCHANGED <<callVars, call>>

\* __init__, line 33: the plugin is loaded
ShellLoadPlugin ==
    /\ shell.stage = "services"
    /\ _load_plugin(shell).stage = "loaded"
    /\ shell' = _load_plugin(shell)
    /\ UNCHANGED <<callVars, call>>

\* __init__, line 33: the import or the lookup of Plugin raises
ShellLoadPluginFail ==
    /\ shell.stage = "services"
    /\ _load_plugin(shell).stage = "failed"
    /\ shell' = _load_plugin(shell)
    /\ UNCHANGED <<callVars, call>>

\* __init__, lines 36-42: the device is found, the "_" slot initialised
ShellVerified ==
    /\ shell.stage = "loaded"
    /\ shell' = _verify_device(shell, "found")
    /\ UNCHANGED <<callVars, call>>

\* __init__, line 36: the device is not reachable, the process exits
ShellExit ==
    /\ shell.stage = "loaded"
    /\ \E scan \in ScanOutcomes \ {"found"} : shell' = _verify_device(shell, scan)
    /\ UNCHANGED <<callVars, call>>

\* main: the command loop starts
ShellCmdLoop ==
    /\ shell.stage = "constructed"
    /\ shell' = cmdloop(shell)
    /\ UNCHANGED <<callVars, call>>

----------------------------------------------------------------------------
(* The decoders applied on their own *)

\* the longest payload given to parse_bp_notification
MaxPayloadLen == 12

\* flags bytes: every combination of bits 0, 2 and 4, and other bits
FlagBytes == {0, 1, 4, 5, 16, 17, 20, 21, 2, 8, 32, 64, 128, 235, 255}

\* two fillings of the bytes after the flags, distinct at every position
Fillings == {1, 35}

\* a payload of n bytes: the flags, then (k + 17 * position) at each position
Payload(flags, n, k) ==
    [i \in 1..n |-> IF i = 1 THEN flags ELSE k + 17 * (i - 1)]

\* the payloads given to parse_bp_notification, the final frames with
\* status 0 and status 0b1011 among them
Payloads ==
    {Payload(f, n, k) : f \in FlagBytes, n \in 0..MaxPayloadLen, k \in Fillings}
        \cup {FinalFrame, FinalFrameCond}

\* the 16-bit status words given to decode_conditions
StatusWords ==
    (0..31) \cup {11 + 16 * h : h \in {1, 2, 255, 4095}}
            \cup {2 ^ b : b \in 4..15} \cup {65535}

\* the mantissas and exponents an SFLOAT holds
Mantissas == -2048..2047

Exponents == -8..7

\* the 16-bit word, little-endian, with mantissa m in its low 12 bits and
\* exponent e in its high 4 bits, both in two's complement
Encode(m, e) ==
    LET word == ((m + 4096) % 4096) + 4096 * ((e + 16) % 16)
    IN  <<word % 256, word \div 256>>

CallParseBp ==
    /\ call = <<>>
    /\ \E data \in Payloads :
           call' = <<[fn |-> "parse_bp_notification", arg |-> data,
                      out |-> parse_bp_notification(data)]>>
    /\ UNCHANGED <<callVars, shell>>

CallDecodeConditions ==
    /\ call = <<>>
    /\ \E status \in StatusWords :
           call' = <<[fn |-> "decode_conditions", arg |-> status,
                      out |-> decode_conditions(status)]>>
    /\ UNCHANGED <<callVars, shell>>

CallParseSfloat ==
    /\ call = <<>>
    /\ \E m \in Mantissas, e \in Exponents :
           call' = <<[fn |-> "parse_sfloat", arg |-> Encode(m, e),
                      mant |-> m, exp |-> e,
                      out |-> parse_sfloat(Encode(m, e))]>>
    /\ UNCHANGED <<callVars, shell>>

\* measure() builds the conditions of a row from the status of a result
CallRowConditions ==
    /\ call = <<>>
    /\ \E data \in Payloads, battery \in BatteryLevels :
           /\ parse_bp_notification(data).ok
           /\ call' = <<[fn |-> "row", arg |-> data,
                         out |-> Row(<<parse_bp_notification(data).v>>,
                                     battery)]>>
    /\ UNCHANGED <<callVars, shell>>

----------------------------------------------------------------------------
(* The specification: one call of measure() *)

\* measure() has been called and nothing of it has run
SessionInit ==
    /\ pc = "connect"
    /\ result = <<>>
    /\ aborted = [flag |-> FALSE, reason |-> ""]
    /\ event = FALSE
    /\ progress = <<>>
    /\ handled = <<>>
    /\ handlerErr = <<>>
    /\ elapsed = 0
    /\ timedOut = FALSE
    /\ pending = <<>>
    /\ subscribed = {}
    /\ writes = 0
    /\ opens = 0
    /\ connected = FALSE
    /\ sess = <<>>
    /\ batteryReads = 0
    /\ ret = <<>>
    /\ printed = <<>>
    /\ measureExc = <<>>

Init ==
    /\ SessionInit
    /\ call = <<>>
    /\ shell = ArmShell

Next ==
    \/ Connect
    \/ ConnectFail
    \/ NotifyMeas
    \/ NotifyMeasFail
    \/ NotifyCtrl
    \/ NotifyCtrlFail
    \/ Write
    \/ WriteFail
    \/ Tick
    \/ Timeout
    \/ WaitReturn
    \/ WaitFail
    \/ Disconnect
    \/ DisconnectFail
    \/ MeasurementNotification
    \/ ControlNotification
    \/ MeasureFail
    \/ BatteryRead
    \/ BatteryReadFail

Spec == Init /\ [][Next]_vars

----------------------------------------------------------------------------
(* One call of measure() in which the clock advances, the deadline of *)
(* wait_for fires, the wait returns once the event is set and the        *)
(* disconnect of __aexit__ returns or raises                             *)

LiveSpec ==
    /\ Init
    /\ [][Next]_vars
    /\ WF_vars(Tick)
    /\ WF_vars(Timeout)
    /\ WF_vars(WaitReturn)
    /\ WF_vars(Disconnect \/ DisconnectFail)

----------------------------------------------------------------------------
(* The specification of the decoders: one call of one decoder *)

DecodeInit ==
    /\ SessionInit
    /\ call = <<>>
    /\ shell = ArmShell

DecodeNext ==
    \/ CallParseBp
    \/ CallDecodeConditions
    \/ CallParseSfloat
    \/ CallRowConditions

DecodeSpec == DecodeInit /\ [][DecodeNext]_vars

----------------------------------------------------------------------------
(* The specification of the shell: one construction of QardioShell *)

ShellInit ==
    /\ SessionInit
    /\ call = <<>>
    /\ shell \in {[NewShell(device, address, adapter, file) EXCEPT !.disk = d] :
                      device \in DeviceNames, address \in AddressArgs,
                      adapter \in AdapterArgs, file \in ConfigFiles,
                      d \in StateFiles}

ShellNext ==
    \/ ShellServices
    \/ ShellLoadPlugin
    \/ ShellLoadPluginFail
    \/ ShellVerified
    \/ ShellExit
    \/ ShellCmdLoop

ShellSpec == ShellInit /\ [][ShellNext]_vars

----------------------------------------------------------------------------
(* The specification of the measure command: the shell for "arm" runs     *)
(* do_measure again and again, each time with one call of measure()       *)

\* do_measure, line 183: the "_" dataset of an earlier command is kept and
\* only its progress list is emptied
reset_progress(s) ==
    [s EXCEPT !.slot = IF s.slot = <<>> THEN <<FreshDict>>
                       ELSE <<[s.slot[1] EXCEPT !.progress = << <<>> >>]>>]

\* do_measure, lines 183-184: self.state.data["_"] = {"progress": []}, save()
reset_slot(s) == [s EXCEPT !.slot = <<FreshDict>>]

\* do_measure, lines 186-207: what measure() returned (r) or raised (exc) is
\* recorded in the "_" dataset, and the state is saved
do_measure(s, r, exc) ==
    save([s EXCEPT !.slot =
        IF exc # <<>>
        THEN <<[s.slot[1] EXCEPT !.error = <<exc[1].msg>>]>>
        ELSE IF r = <<>>
        THEN <<[s.slot[1] EXCEPT !.error = <<"measurement aborted">>]>>
        ELSE <<[s.slot[1] EXCEPT !.measurement = r]>>])

\* the command starts: the slot is reset and saved, measure() is called
DoMeasureBegin ==
    /\ shell.stage = "loop"
    /\ ~shell.busy
    /\ pc \in {"connect", "done"}
    /\ shell' = [save(reset_slot(shell)) EXCEPT !.busy = TRUE,
                                                !.again = (pc = "done")]
    /\ pc' = "connect"
    /\ result' = <<>>
    /\ aborted' = [flag |-> FALSE, reason |-> ""]
    /\ event' = FALSE
    /\ progress' = <<>>
    /\ handled' = <<>>
    /\ handlerErr' = <<>>
    /\ elapsed' = 0
    /\ timedOut' = FALSE
    /\ pending' = <<>>
    /\ subscribed' = {}
    /\ writes' = 0
    /\ opens' = 0
    /\ connected' = FALSE
    /\ sess' = <<>>
    /\ batteryReads' = 0
    /\ ret' = <<>>
    /\ printed' = <<>>
    /\ measureExc' = <<>>
    /\ UNCHANGED call

\* measure() has returned or raised: the outcome is recorded and saved
DoMeasureEnd ==
    /\ shell.busy
    /\ pc = "done"
    /\ shell' = [do_measure(shell, ret, measureExc) EXCEPT !.busy = FALSE]
    /\ UNCHANGED <<callVars, call>>

\* a step of the call of measure() the command is waiting for
MeasureStep == shell.busy /\ Next

CmdInit ==
    /\ SessionInit
    /\ call = <<>>
    /\ shell = ArmShell

CmdNext ==
    \/ DoMeasureBegin
    \/ MeasureStep
    \/ DoMeasureEnd

CmdSpec == CmdInit /\ [][CmdNext]_vars

----------------------------------------------------------------------------
(* Vocabulary of the properties, over the history of the session *)

\* a payload with the implicit-abort signature: 5 or more bytes, 0x04 0xFF
AbortSignature(data) == Len(data) >= 5 /\ data[1] = 4 /\ data[2] = 255

\* a payload whose flags have bit 4 set
FinalFlag(data) == Len(data) >= 1 /\ Bit(data[1], 4)

\* the phase code of a control payload 0xF2 0x01..0x06, 0 for any other
PhaseCode(data) ==
    IF Len(data) = 2 /\ data[1] = 242 /\ data[2] \in 1..6 THEN data[2] ELSE 0

IsMeas(n) == n.ch = "meas"

IsCtrl(n) == n.ch = "ctrl"

\* the notifications that end a session: a final frame, an implicit abort,
\* a Completed, Aborted or Error phase
Terminating(n) ==
    IF IsMeas(n) THEN AbortSignature(n.data) \/ FinalFlag(n.data)
    ELSE PhaseCode(n.data) \in {4, 5, 6}

Handled == 1..Len(handled)

\* no step of the try block raised (no transport failure, no timeout)
NoException == pending = <<>>

\* a transport step raised
TransportFailed == pending # <<>> /\ pending[1].err \in TransportErrors

AbortedWith(reason) ==
    [kind |-> "raise", type |-> "QardioMeasurementAborted",
     msg |-> reason, cause |-> "none"]

ConnectionFailedFrom(e) ==
    [kind |-> "raise", type |-> "QardioConnectionError",
     msg |-> "cannot connect", cause |-> e]

\* measure() returned None after printing "[FAIL] <text>", without a
\* battery read
FailedWith(text) ==
    /\ ret = <<>>
    /\ printed = <<text>>
    /\ measureExc = <<>>
    /\ batteryReads = 0

----------------------------------------------------------------------------
(* C1 *)

\* C1: a session whose only terminating notification is an Aborted or Error
\* phase ends in QardioMeasurementAborted with str(phase) as reason:
\* measure() returns None and issues no battery read.
C1_AbortPhaseIsTypedAbort ==
    \A i \in Handled :
        ( /\ pc = "done"
          /\ NoException
          /\ IsCtrl(handled[i])
          /\ PhaseCode(handled[i].data) \in {5, 6}
          /\ \A j \in Handled \ {i} : ~Terminating(handled[j]) )
        => /\ sess[1] = AbortedWith(PhaseStr(Phase(handled[i].data[2])[1]))
           /\ FailedWith(PhaseStr(Phase(handled[i].data[2])[1]))

----------------------------------------------------------------------------
(* C2 *)

\* C2: whenever measure() returns a row, the row carries the fields of a
\* final frame (flags bit 4) received on the measurement channel in this
\* session; a Completed phase before any final frame gives no row with an
\* empty measurement.
C2_SuccessCarriesFinalFrame ==
    (pc = "done" /\ ret # <<>>)
    => /\ ret[1].m # <<>>
       /\ \E i \in Handled :
              /\ IsMeas(handled[i])
              /\ FinalFlag(handled[i].data)
              /\ parse_bp_notification(handled[i].data).ok
              /\ parse_bp_notification(handled[i].data).v = ret[1].m[1]

----------------------------------------------------------------------------
(* C3 *)

\* the i-th notification was handled while the session was active: after
\* the start write, during the wait, and before any terminating notification
ActiveAt(i) ==
    /\ handled[i].at = "wait"
    /\ \A j \in 1..(i - 1) : ~Terminating(handled[j])

\* C3: every measurement payload of 5 or more bytes that starts 0x04 0xFF and
\* is handled while the session is active ends the session as
\* Aborted("arm movement"), whatever its length.
C3_AbortSignatureAlwaysAborts ==
    \A i \in Handled :
        ( /\ pc = "done"
          /\ NoException
          /\ IsMeas(handled[i])
          /\ AbortSignature(handled[i].data)
          /\ ActiveAt(i) )
        => sess[1] = AbortedWith("arm movement")

----------------------------------------------------------------------------
(* C4 *)

\* C4: once a payload with the implicit-abort signature has been handled,
\* the session ends as Aborted("arm movement") whatever notifications are
\* handled after it: measure() prints the reason, returns None and reads no
\* battery level.
C4_AbortIsNeverOverridden ==
    ( /\ pc = "done"
      /\ NoException
      /\ \E i \in Handled : IsMeas(handled[i]) /\ AbortSignature(handled[i].data) )
    => /\ sess[1] = AbortedWith("arm movement")
       /\ FailedWith("arm movement")

\* the same for the payloads long enough for parse_bp_notification (those
\* that reach the implicit-abort test of handle_measurement)
ParsedAbortIsNeverOverridden ==
    ( /\ pc = "done"
      /\ NoException
      /\ \E i \in Handled :
             /\ IsMeas(handled[i])
             /\ AbortSignature(handled[i].data)
             /\ parse_bp_notification(handled[i].data).ok )
    => /\ sess[1] = AbortedWith("arm movement")
       /\ FailedWith("arm movement")

----------------------------------------------------------------------------
(* C5 *)

\* a terminating notification was handled while the session was active and
\* set the event: the session has reached a terminal state
Terminated ==
    /\ event
    /\ NoException
    /\ \E i \in Handled : ActiveAt(i) /\ Terminating(handled[i])

\* C5: terminal states are absorbing: once the first terminating notification
\* has been handled, no step changes the outcome the session produces (its
\* variant, its reason and the captured result).
C5_TerminalIsAbsorbing ==
    [][ Terminated => Outcome(aborted', result') = Outcome(aborted, result) ]_vars

----------------------------------------------------------------------------
(* C6 *)

\* C6: a session whose start write succeeded and in which no terminating
\* notification is handled ends by the timeout, after exactly the configured
\* time, whatever non-final frames and non-terminal phases were handled:
\* _measure_async raises from asyncio.TimeoutError, measure() returns None
\* and reads no battery level.
C6_TimeoutWithoutTerminatingEvent ==
    /\ (pc = "wait" => elapsed <= timeout)
    /\ ( /\ pc = "done"
         /\ writes = 1
         /\ ~TransportFailed
         /\ \A i \in Handled : ~Terminating(handled[i]) )
       => /\ timedOut
          /\ elapsed = timeout
          /\ sess[1] = ConnectionFailedFrom("TimeoutError")
          /\ FailedWith("cannot connect")

\* a session that timed out although a sample frame and a Measuring phase
\* were handled during the wait
C6_Witness ==
    /\ pc = "done"
    /\ timedOut
    /\ ~TransportFailed
    /\ sess[1] = ConnectionFailedFrom("TimeoutError")
    /\ ret = <<>>
    /\ \E i, j \in Handled :
           /\ handled[i] = [ch |-> "meas", data |-> SampleFrame, at |-> "wait"]
           /\ handled[j] = [ch |-> "ctrl", data |-> <<242, 2>>, at |-> "wait"]

----------------------------------------------------------------------------
(* C7 *)

\* what the caller sees of a session that ended by the timeout
TimeoutReport ==
    /\ sess[1] = ConnectionFailedFrom("TimeoutError")
    /\ FailedWith("cannot connect")

\* the device aborted the session while it was active: an implicit-abort
\* payload or an Aborted phase
DeviceAborted ==
    \E i \in Handled :
        /\ ActiveAt(i)
        /\ \/ IsMeas(handled[i]) /\ AbortSignature(handled[i].data)
           \/ IsCtrl(handled[i]) /\ PhaseCode(handled[i].data) = 5

\* C7: a session the device aborted is never reported to the caller the way
\* a session that ended by the timeout is.
C7_AbortDiffersFromTimeout ==
    (pc = "done" /\ DeviceAborted) => ~TimeoutReport

----------------------------------------------------------------------------
(* C8 *)

\* the first terminating notification handled while the session was active
FirstTerminating(i) == ActiveAt(i) /\ Terminating(handled[i])

\* C8: the battery level is read exactly once in a session completed by a
\* final frame, and then the row carries the parsed frame and the conditions
\* of its status; it is not read in a session that ends Aborted, Error,
\* TimedOut or ConnectionFailed.
C8_BatteryReadOnlyAfterCompletion ==
    pc = "done" =>
        /\ \A i \in Handled :
               ( /\ NoException
                 /\ FirstTerminating(i)
                 /\ IsMeas(handled[i])
                 /\ FinalFlag(handled[i].data)
                 /\ ~AbortSignature(handled[i].data) )
               => /\ batteryReads = 1
                  /\ ret # <<>> =>
                        /\ ret[1].m = <<parse_bp_notification(handled[i].data).v>>
                        /\ ret[1].conditions =
                               Join(decode_conditions(StatusOrZero(ret[1].m)))
        /\ \A i \in Handled :
               ( /\ NoException
                 /\ FirstTerminating(i)
                 /\ \/ IsMeas(handled[i]) /\ AbortSignature(handled[i].data)
                    \/ IsCtrl(handled[i]) /\ PhaseCode(handled[i].data) \in {5, 6} )
               => batteryReads = 0
        /\ (timedOut \/ TransportFailed) => batteryReads = 0

----------------------------------------------------------------------------
(* C9 *)

\* C9: a transport failure at any step ends the session as
\* QardioConnectionError("cannot connect") wrapping the cause: measure()
\* returns None and reads no battery level, and no later step of the session
\* runs (no subscription and no start write after the failed step).
C9_TransportFailureIsConnectionFailed ==
    TransportFailed =>
        /\ pc \in {"exit", "returned", "done"}
        /\ pending[1].at = "connect" => (subscribed = {} /\ ~connected)
        /\ pending[1].at = "notify_meas" => subscribed = {}
        /\ pending[1].at = "notify_ctrl" => subscribed = {"meas"}
        /\ pending[1].at \in {"connect", "notify_meas", "notify_ctrl"}
               => writes = 0
        /\ pc \in {"returned", "done"}
               => sess[1] = ConnectionFailedFrom(pending[1].err)
        /\ pc = "done" => FailedWith("cannot connect")

\* a session whose subscription to the control channel failed with OSError
C9_Witness ==
    /\ pc = "done"
    /\ pending = <<[err |-> "OSError", at |-> "notify_ctrl"]>>
    /\ sess[1] = ConnectionFailedFrom("OSError")
    /\ writes = 0
    /\ ret = <<>>

----------------------------------------------------------------------------
(* C10 *)

\* C10: the start command is written at most once, only with both
\* subscriptions registered, and not again after a write failure, a timeout
\* or an abort; the session opens the transport at most once.
C10_SingleStartWrite ==
    /\ writes <= 1
    /\ opens <= 1
    /\ writes = 1 => subscribed = {"meas", "ctrl"}
    /\ pc \in {"connect", "notify_meas", "notify_ctrl", "write"} => writes = 0

\* a session whose start write failed, finished without a second write
C10_Witness ==
    /\ pc = "done"
    /\ pending = <<[err |-> "BleakError", at |-> "write"]>>
    /\ writes = 1
    /\ opens = 1

----------------------------------------------------------------------------
(* C11 *)

\* the number of bytes the flags of a payload require: 7, plus 2 for the
\* pulse rate (bit 2), plus 2 for the status (bit 4)
RequiredLen(data) ==
    IF Len(data) = 0 THEN 7
    ELSE 7 + (IF Bit(data[1], 2) THEN 2 ELSE 0)
           + (IF Bit(data[1], 4) THEN 2 ELSE 0)

\* parse_bp_notification has been applied
Parsed == call # <<>> /\ call[1].fn = "parse_bp_notification"

\* C11: parse_bp_notification fails for every payload shorter than its
\* flags require, a payload with a missing or one-byte status included.
C11_TruncatedPayloadFails ==
    (Parsed /\ Len(call[1].arg) < RequiredLen(call[1].arg))
        => ~call[1].out.ok

\* a payload with flags 0x10 whose status field is missing or cut to one
\* byte is parsed
C11_TruncatedStatusParsed ==
    /\ Parsed
    /\ Bit(call[1].arg[1], 4)
    /\ Len(call[1].arg) < RequiredLen(call[1].arg)
    /\ call[1].out.ok

----------------------------------------------------------------------------
(* C12 *)

\* a step that handles the control notification data
HandlesControl(data) ==
    handled' = Append(handled, [ch |-> "ctrl", data |-> data, at |-> pc])

\* C12: a control notification that does not decode to a phase (not 2 bytes,
\* first byte not 0xF2, or second byte not a phase code) is ignored: the
\* handler raises no error, emits no progress event and leaves the event, the
\* result and the abort flag unchanged.
C12_UndecodedControlIsIgnored ==
    [][\A data \in CtrlPayloads :
           (HandlesControl(data) /\ PhaseCode(data) = 0)
               => UNCHANGED <<handlerErr, progress, event, result, aborted>>]_vars

\* what does hold: an undecoded control notification emits no progress event
\* and leaves the event, the result and the abort flag unchanged
UndecodedControlChangesNoState ==
    [][\A data \in CtrlPayloads :
           (HandlesControl(data) /\ PhaseCode(data) = 0)
               => UNCHANGED <<progress, event, result, aborted>>]_vars

----------------------------------------------------------------------------
(* C13 *)

\* the session returned a captured final frame: a completed measurement
MeasurementCompleted ==
    sess # <<>> /\ sess[1].kind = "return" /\ sess[1].value # <<>>

\* C13: a failure of the battery read that follows a completed measurement
\* does not invalidate it: measure() still delivers the measured values.
C13_BatteryFailureKeepsMeasurement ==
    (pc = "done" /\ MeasurementCompleted)
        => (ret # <<>> /\ ret[1].m = sess[1].value)

\* the battery read failed after a completed measurement and measure()
\* raised instead of returning the values
C13_MeasurementLost ==
    /\ pc = "done"
    /\ MeasurementCompleted
    /\ ret = <<>>
    /\ measureExc # <<>>
    /\ measureExc[1].type = "QardioConnectionError"

----------------------------------------------------------------------------
(* C14 *)

\* bit k of a flags byte
FlagSet(flags, k) == (flags \div (2 ^ k)) % 2 = 1

\* a payload that has the bytes its flags require
WellFormed(data) == Len(data) >= RequiredLen(data)

\* the SFLOAT in the two bytes at 0-indexed offset o of the payload
FieldAt(data, o) == parse_sfloat(<<data[o + 1], data[o + 2]>>).v

\* the 16-bit little-endian word at 0-indexed offset o of the payload
WordAt(data, o) == data[o + 1] + 256 * data[o + 2]

\* the frame the wire format describes
WireFrame(data) ==
    LET flags == data[1]
    IN  [flags     |-> flags,
         unit      |-> IF FlagSet(flags, 0) THEN "kPa" ELSE "mmHg",
         systolic  |-> FieldAt(data, 1),
         diastolic |-> FieldAt(data, 3),
         map       |-> FieldAt(data, 5),
         pulse     |-> IF FlagSet(flags, 2) THEN <<FieldAt(data, 7)>> ELSE <<>>,
         status    |-> IF ~FlagSet(flags, 4) THEN <<>>
                       ELSE IF FlagSet(flags, 2) THEN <<WordAt(data, 9)>>
                       ELSE <<WordAt(data, 7)>>]

\* C14: for every well-formed payload parse_bp_notification reads systolic,
\* diastolic and MAP from bytes 1..6 in that order, then the pulse rate, then
\* the status; the pulse is present iff flags bit 2 is set, the status iff
\* bit 4 is set, the unit is kPa iff bit 0 is set, whatever the other bits
\* and bytes are.
C14_FieldsInWireOrder ==
    (Parsed /\ WellFormed(call[1].arg))
        => (call[1].out.ok /\ call[1].out.v = WireFrame(call[1].arg))

\* a well-formed payload with pulse and status, and other flag bits set, parsed
C14_Witness ==
    /\ Parsed
    /\ WellFormed(call[1].arg)
    /\ call[1].arg[1] = 255
    /\ call[1].out.ok
    /\ call[1].out.v.pulse # <<>>
    /\ call[1].out.v.status # <<>>
    /\ call[1].out.v.unit = "kPa"

----------------------------------------------------------------------------
(* C15 *)

\* the measurement conditions, by bit of the status word
ConditionBits ==
    <<[bit |-> 0, name |-> "body_movement"],
      [bit |-> 1, name |-> "cuff_too_loose"],
      [bit |-> 2, name |-> "irregular_pulse"],
      [bit |-> 3, name |-> "pulse_rate_out_of_range"]>>

\* the names of the bits 0..3 set in status, in ascending bit order
SetBitNames(status) ==
    LET IsSet(c) == FlagSet(status, c.bit)
        set == SelectSeq(ConditionBits, IsSet)
    IN  [i \in 1..Len(set) |-> set[i].name]

\* decode_conditions has been applied
Decoded == call # <<>> /\ call[1].fn = "decode_conditions"

\* measure() has built a row from a parsed frame
RowBuilt == call # <<>> /\ call[1].fn = "row"

\* the status of the frame a row was built from is 0 or absent
NoStatus(row) == row.m[1].status \in {<<>>, <<0>>}

\* C15: for every 16-bit status the condition decoder returns exactly the
\* names of the set bits among bits 0..3, in ascending bit order, ignoring
\* bits 4..15; a zero or absent status yields no conditions, in the decoder
\* and in the row built from a frame.
C15_ConditionsAreSetBitsInOrder ==
    /\ Decoded => /\ call[1].out = SetBitNames(call[1].arg)
                  /\ call[1].out = SetBitNames(call[1].arg % 16)
                  /\ (call[1].arg = 0 => call[1].out = <<>>)
    /\ (RowBuilt /\ NoStatus(call[1].out)) => call[1].out.conditions = ""

\* status 0b1011 with bits 4..11 set as well is decoded to its three names
C15_Witness ==
    /\ Decoded
    /\ call[1].arg = 11 + 16 * 255
    /\ call[1].out =
           <<"body_movement", "cuff_too_loose", "pulse_rate_out_of_range">>

\* a row is built from the final frame with status 0
C15_RowWitness ==
    /\ RowBuilt
    /\ call[1].arg = FinalFrame
    /\ call[1].out.m[1].status = <<0>>
    /\ call[1].out.conditions = ""

----------------------------------------------------------------------------
(* C16 *)

\* parse_sfloat has been applied to the encoding of (mant, exp)
SfloatParsed == call # <<>> /\ call[1].fn = "parse_sfloat"

\* C16: for every mantissa m in -2048..2047 and exponent e in -8..7,
\* parse_sfloat applied to the little-endian word with m in its low 12 bits
\* and e in its high 4 bits recovers exactly m and e, the factors of the
\* value m * 10^e it returns.
C16_SfloatRoundTrip ==
    SfloatParsed =>
        /\ call[1].mant \in Mantissas
        /\ call[1].exp \in Exponents
        /\ Len(call[1].arg) = 2
        /\ call[1].arg[1] \in 0..255
        /\ call[1].arg[2] \in 0..255
        /\ call[1].out = [ok |-> TRUE,
                          v  |-> [mant |-> call[1].mant, exp |-> call[1].exp]]

\* the smallest mantissa with the smallest exponent, 0x00 0x88, is decoded
C16_Witness ==
    /\ SfloatParsed
    /\ call[1].mant = -2048
    /\ call[1].exp = -8
    /\ call[1].arg = <<0, 136>>
    /\ call[1].out.v = [mant |-> -2048, exp |-> -8]

----------------------------------------------------------------------------
(* C17 *)

\* __init__ has returned
Constructed == shell.stage \in {"constructed", "loop"}

----------------------------------------------------------------------------
(* C18 *)

\* the session-start write has not been issued
BeforeStartWrite == writes = 0

\* C18: the session acts on notifications only while Active: before the
\* session-start write is issued no notification captures a result, sets the
\* abort flag or sets the termination signal.
C18_NoEffectBeforeStartWrite ==
    BeforeStartWrite => (result = <<>> /\ ~aborted.flag /\ ~event)

\* a notification handled before the start write has ended the session
C18_TerminatedBeforeStart ==
    /\ BeforeStartWrite
    /\ event
    /\ \E i \in Handled : handled[i].at \in {"notify_ctrl", "write"}

----------------------------------------------------------------------------
(* C19 *)

\* the session-start write has been issued
StartWritten == writes >= 1

\* _measure_async has ended, by a return or by an exception
SessionEnded == sess # <<>>

\* C19: every session whose start write has been issued eventually ends,
\* provided the deadline fires and the transport calls return; no sequence
\* of notifications keeps it waiting forever.
C19_StartedSessionEnds == StartWritten ~> SessionEnded

\* a session that handled notifications which did not end it, and was then
\* ended by the deadline
C19_Witness ==
    /\ StartWritten
    /\ SessionEnded
    /\ Len(handled) = MaxNotifs
    /\ \A i \in Handled : handled[i].at = "wait" /\ ~Terminating(handled[i])
    /\ timedOut
    /\ sess[1] = ConnectionFailedFrom("TimeoutError")

----------------------------------------------------------------------------
(* C21 *)

\* the names of the phase codes 0x01..0x06
PhaseNames ==
    <<"INFLATING", "MEASURING", "DEFLATING", "COMPLETED", "ABORTED", "ERROR">>

\* the progress events of the two channels
BpSample(data) == [type |-> "bp", m |-> WireFrame(data)]

PhaseChange(data) == [type |-> "phase", phase |-> PhaseNames[PhaseCode(data)]]

\* this step handles a notification
HandlesNotification == handled' # handled

\* the notification this step handles
Notification == handled'[Len(handled')]

\* C21: with the progress sink installed, every well-formed measurement frame
\* that is not an implicit abort delivers exactly one BpSample event with the
\* parsed fields, and every control notification that decodes to a phase
\* delivers exactly one PhaseChange event; the events reach the sink in the
\* step that handles the notification, hence in the order of handling and
\* before the session leaves its wait.
C21_OneProgressEventPerNotification ==
    [][HandlesNotification =>
          /\ (IsMeas(Notification) /\ WellFormed(Notification.data)
                  /\ ~AbortSignature(Notification.data))
                 => progress' = Append(progress, BpSample(Notification.data))
          /\ (IsCtrl(Notification) /\ PhaseCode(Notification.data) # 0)
                 => progress' = Append(progress, PhaseChange(Notification.data))
          /\ Len(progress') <= Len(progress) + 1]_vars

\* a sample, then the final frame: the sink has both events, in that order,
\* while the session, its event set, has not yet left the wait
C21_Witness ==
    /\ pc = "wait"
    /\ event
    /\ Len(handled) = 2
    /\ handled[1].data = SampleFrame
    /\ handled[2].data = FinalFrameCond
    /\ progress = <<BpSample(SampleFrame), BpSample(FinalFrameCond)>>

\* a Completed phase: the sink has the PhaseChange when the event is set
C21_PhaseWitness ==
    /\ pc = "wait"
    /\ event
    /\ Len(handled) = 1
    /\ handled[1].data = <<242, 4>>
    /\ progress = <<[type |-> "phase", phase |-> "COMPLETED"]>>

----------------------------------------------------------------------------
(* C22 *)

\* this step opens the connection of the battery read
OpensBatteryConnection == batteryReads' # batteryReads

\* the session's connection is released once _measure_async has ended, the
\* session opens one connection, and no battery read has been made while
\* its connection is open
SessionConnectionReleased ==
    /\ pc \in {"returned", "done"} => ~connected
    /\ SessionEnded => ~connected
    /\ connected => batteryReads = 0
    /\ opens <= 1

\* C22: at most one transport connection is open at any time during
\* measure(): the connection of the battery read is opened only after the
\* session's connection has been released, and the session's connection is
\* released on every exit path.
C22_OneConnectionAtATime ==
    /\ []SessionConnectionReleased
    /\ [][OpensBatteryConnection =>
              (~connected /\ ~connected' /\ SessionEnded /\ opens = 1)]_vars

\* the battery read was made after a completed session had released its
\* connection
C22_Witness ==
    /\ pc = "done"
    /\ MeasurementCompleted
    /\ batteryReads = 1
    /\ opens = 1
    /\ ~connected

\* a session ended by the timeout has released its connection
C22_TimeoutWitness ==
    /\ pc = "returned"
    /\ timedOut
    /\ opens = 1
    /\ ~connected

----------------------------------------------------------------------------
(* C23 *)

\* an outcome of _measure_async without its wrapped cause
Surface(o) == [kind |-> o.kind, type |-> o.type, msg |-> o.msg]

\* what a timeout and a transport failure both surface as
CannotConnect ==
    [kind |-> "raise", type |-> "QardioConnectionError", msg |-> "cannot connect"]

\* the session was ended by the deadline or by a failure of the transport
EndedByException == SessionEnded /\ pending # <<>>

\* C23: a session ended by the timeout and a session ended by a transport
\* failure surface from _measure_async as the same error type with the same
\* message "cannot connect" and differ in the wrapped cause only; measure()
\* reports both alike.
C23_TimeoutAndFailureSurfaceAlike ==
    EndedByException =>
        /\ pending[1].err \in TransportErrors \cup {"TimeoutError"}
        /\ Surface(sess[1]) = CannotConnect
        /\ sess[1].cause = pending[1].err
        /\ pc = "done" => (printed = <<"cannot connect">> /\ ret = <<>>
                            /\ measureExc = <<>> /\ batteryReads = 0)

\* a session ended by the timeout, reported by measure()
C23_Witness ==
    /\ pc = "done"
    /\ pending = <<[err |-> "TimeoutError", at |-> "wait"]>>
    /\ Surface(sess[1]) = CannotConnect
    /\ sess[1].cause = "TimeoutError"
    /\ printed = <<"cannot connect">>

\* a session ended by a failure of the transport during the wait, reported by
\* measure() in the same way
C23_FailureWitness ==
    /\ pc = "done"
    /\ pending = <<[err |-> "BleakError", at |-> "wait"]>>
    /\ Surface(sess[1]) = CannotConnect
    /\ sess[1].cause = "BleakError"
    /\ printed = <<"cannot connect">>

----------------------------------------------------------------------------
(* C24 *)

\* the keys of a dataset
Keys(d) ==
    {k \in {"progress", "error", "measurement"} :
        \/ (k = "progress" /\ d.progress # <<>>)
        \/ (k = "error" /\ d.error # <<>>)
        \/ (k = "measurement" /\ d.measurement # <<>>)}

\* a measure command has been executed and the shell is back at its prompt
CommandDone == shell.stage = "loop" /\ ~shell.busy /\ pc = "done"

\* what the call of measure() of the command did
PluginReturnedResult == ret # <<>> /\ measureExc = <<>>

PluginReturnedNone == ret = <<>> /\ measureExc = <<>>

PluginRaised == measureExc # <<>>

C24_ErrorWitness ==
    /\ CommandDone
    /\ shell.again
    /\ PluginRaised
    /\ Keys(shell.slot[1]) = {"progress", "error"}

----------------------------------------------------------------------------
(* C25 *)

\* the datasets a StateService holds after loading the file as it is now
Reloaded == _load(shell.disk)

\* C25: the state saved by save() reflects the shell's current datasets:
\* after a measure command has changed state.data and called save(), a
\* StateService loaded from the written file holds the same datasets, the
\* latest measurement in "_" included.
C25_SavedStateReflectsDatasets ==
    CommandDone => (shell.disk # <<>> /\ Reloaded = shell.slot)

\* a measurement was recorded and saved, and the file holds no dataset
C25_MeasurementNotSaved ==
    /\ CommandDone
    /\ PluginReturnedResult
    /\ shell.slot[1].measurement = ret
    /\ shell.disk = << <<>> >>
    /\ Reloaded = <<>>

====
